---- MODULE Spec2Model ----
(***************************************************************************)
(* The scanning engine of parser/lexer/lexer.go: the cursor over the input *)
(* buffer, the token emitter, the location calculator, the error reporter  *)
(* and the string/escape scanner.                                          *)
(*                                                                         *)
(* Runes are integers (code points), the input is a Go string, that is a   *)
(* sequence of bytes holding the UTF-8 encoding of the source's runes.     *)
(* Offsets (start, end) are 0-based byte offsets as in the code; the byte  *)
(* at offset k is input[k + 1].                                            *)
(***************************************************************************)
EXTENDS Integers, Sequences, FiniteSets, TLC

VARIABLES
    input,      \* lexer.input: the bytes of the source
    tokens,     \* lexer.tokens
    start,      \* lexer.start
    end,        \* lexer.end
    width,      \* lexer.width
    err,        \* lexer.err: <<>> is nil, <<e>> is a recorded *file.Error
    pc,         \* "idle", or the function of the string scanner that is running,
                \* or "done" once Lex has returned
    quote,      \* scanString/scanEscape: the parameter quote
    ch,         \* scanString/scanEscape/scanDigits: the local ch
    n,          \* scanString: the named result n
    base,       \* scanDigits: the parameter base
    dn,         \* scanDigits: the parameter n (digits still wanted)
    panicked,   \* a Go run-time panic (slice bounds out of range) ended the run
    call,       \* history: the last operation called, its argument and result
                \* (of a running scanString: "running", or "reported" once
                \* it has called error, the offset it was called at and the
                \* number of next() calls it has made; of peek and acceptWord:
                \* where end stood before a next() that came right before)
    nsb,        \* history: the state function called next() since its last backup()
    direct,     \* history: every backup() of a state function so far came
                \* right after a next() of that state function
    suppressed  \* history: error() was called while an error was recorded

vars == <<input, tokens, start, end, width, err, pc, quote, ch, n, base, dn,
          panicked, call, nsb, direct, suppressed>>

scanVars == <<pc, quote, ch, n, base, dn>>

---------------------------------------------------------------------------
(* Bounds of the model *)

\* runes in an input of the cursor/emitter specification
MaxLen == 3

\* tokens a run may emit
MaxTokens == 2

---------------------------------------------------------------------------
(* Runes, bytes and UTF-8 *)

\* const eof rune = -1
eof == -1

\* utf8.RuneError, U+FFFD: what decoding yields for a byte that starts no rune
RuneError == 65533

\* the newline '\n'
NL == 10

\* utf8.EncodeRune for runes below U+0800 (one or two bytes)
EncodeRune(r) ==
    IF r < 128 THEN <<r>> ELSE <<192 + (r \div 64), 128 + (r % 64)>>

\* string(runes): the UTF-8 encoding of a sequence of runes
RECURSIVE EncodeString(_)
EncodeString(rs) ==
    IF rs = <<>> THEN <<>> ELSE EncodeRune(Head(rs)) \o EncodeString(Tail(rs))

\* utf8.DecodeRuneInString(s): the first rune of s and its width in bytes.
\* One- and two-byte sequences are decoded; every other byte is an
\* encoding error, reported as (RuneError, 1).
DecodeRuneInString(s) ==
    IF s = <<>> THEN [r |-> RuneError, w |-> 0]
    ELSE IF s[1] < 128 THEN [r |-> s[1], w |-> 1]
    ELSE IF /\ s[1] >= 194 /\ s[1] <= 223
            /\ Len(s) >= 2 /\ s[2] >= 128 /\ s[2] <= 191
         THEN [r |-> (s[1] - 192) * 64 + (s[2] - 128), w |-> 2]
    ELSE [r |-> RuneError, w |-> 1]

\* []rune(s): the runes of a string, decoded left to right; from[p] is the
\* runes of s from byte offset p on
Runes(s) ==
    LET from[p \in 0..Len(s)] ==
            IF p >= Len(s) THEN <<>>
            ELSE LET d == DecodeRuneInString(SubSeq(s, p + 1, Len(s)))
                 IN  <<d.r>> \o from[p + d.w]
    IN  from[0]

\* strings.ContainsRune(valid, r), valid given by its runes
ContainsRune(valid, r) ==
    r >= 0 /\ \E i \in 1..Len(valid) : valid[i] = r

---------------------------------------------------------------------------
(* The lexer's methods, as functions of the lexer struct l *)

\* the lexer struct of the current state
L ==
    [input |-> input, tokens |-> tokens, start |-> start, end |-> end,
     width |-> width, err |-> err]

\* func (l *lexer) loc(pos int): the loop over []rune(l.input)
RECURSIVE locLoop(_, _, _, _, _)
locLoop(rs, pos, i, line, column) ==
    IF i >= Len(rs) \/ i = pos
    THEN [Line |-> line, Column |-> column]
    ELSE IF rs[i + 1] = NL
         THEN locLoop(rs, pos, i + 1, line + 1, 0)
         ELSE locLoop(rs, pos, i + 1, line, column + 1)

\* a location calculator whose columns start at 1
locColumnFromOne(l, pos) ==
    locLoop(Runes(l.input), pos, 0, 1, 1)

\* a location calculator whose lines start at 0
locLineFromZero(l, pos) ==
    locLoop(Runes(l.input), pos, 0, 0, 0)

loc(l, pos) ==
    locLoop(Runes(l.input), pos, 0, 1, 0)

next(l) ==
    IF l.end >= Len(l.input)
    THEN [l |-> [l EXCEPT !.width = 0], r |-> eof]
    ELSE LET d == DecodeRuneInString(SubSeq(l.input, l.end + 1, Len(l.input)))
         IN  [l |-> [l EXCEPT !.width = d.w, !.end = l.end + d.w], r |-> d.r]

\* a backup that always steps one byte back, whatever next() read
backupOneByte(l) ==
    [l EXCEPT !.end = l.end - 1]

backup(l) ==
    [l EXCEPT !.end = l.end - l.width]

\* a peek that puts the width of before back
peekKeepWidth(l) ==
    LET nx == next(l)
    IN  [l |-> [backup(nx.l) EXCEPT !.width = l.width], r |-> nx.r]

\* a peek that forgets to back up
peekNoBackup(l) ==
    next(l)

peek(l) ==
    LET nx == next(l) IN [l |-> backup(nx.l), r |-> nx.r]

\* a pending word that starts one byte late
wordOffByOne(l) ==
    SubSeq(l.input, l.start + 2, l.end)

word(l) ==
    SubSeq(l.input, l.start + 1, l.end)

\* an emitter that leaves the span open
emitValueKeepStart(l, t, value) ==
    [l EXCEPT !.tokens = Append(@, [Location |-> loc(l, l.start),
                                    Kind |-> t, Value |-> value])]

emitValue(l, t, value) ==
    [l EXCEPT !.tokens = Append(@, [Location |-> loc(l, l.start),
                                    Kind |-> t, Value |-> value]),
              !.start = l.end]

emit(l, t) ==
    emitValue(l, t, word(l))

emitEOF(l) ==
    [l EXCEPT !.tokens = Append(@, [Location |-> loc(l, l.start - 1),
                                    Kind |-> "EOF", Value |-> <<>>]),
              !.start = l.end]

ignore(l) ==
    [l EXCEPT !.start = l.end]

\* an accept that keeps the rejected character consumed
acceptNoBackup(l, valid) ==
    LET nx == next(l) IN [l |-> nx.l, r |-> ContainsRune(valid, nx.r)]

accept(l, valid) ==
    LET nx == next(l)
    IN  IF ContainsRune(valid, nx.r)
        THEN [l |-> nx.l, r |-> TRUE]
        ELSE [l |-> backup(nx.l), r |-> FALSE]

RECURSIVE acceptRunLoop(_, _)
acceptRunLoop(l, valid) ==
    LET nx == next(l)
    IN  IF ContainsRune(valid, nx.r) THEN acceptRunLoop(nx.l, valid) ELSE nx.l

acceptRun(l, valid) ==
    backup(acceptRunLoop(l, valid))

RECURSIVE acceptWordLoop(_, _, _, _)
acceptWordLoop(l, w, i, pos) ==
    IF i > Len(w) THEN [l |-> l, r |-> TRUE]
    ELSE LET nx == next(l)
         IN  IF nx.r # w[i]
             THEN [l |-> [nx.l EXCEPT !.end = pos], r |-> FALSE]
             ELSE acceptWordLoop(nx.l, w, i + 1, pos)

\* an acceptWord that, on a mismatch, backs up one character only
RECURSIVE acceptWordBackupLoop(_, _, _)
acceptWordBackupLoop(l, w, i) ==
    IF i > Len(w) THEN [l |-> l, r |-> TRUE]
    ELSE LET nx == next(l)
         IN  IF nx.r # w[i]
             THEN [l |-> backup(nx.l), r |-> FALSE]
             ELSE acceptWordBackupLoop(nx.l, w, i + 1)

acceptWordBackup(l, w) ==
    acceptWordBackupLoop(l, w, 1)

acceptWord(l, w) ==
    acceptWordLoop(l, w, 1, l.end)

\* an error reporter that keeps the last error instead of the first
errorLastWins(l, msg) ==
    [l EXCEPT !.err = <<[Location |-> loc(l, l.end - 1), Message |-> msg]>>]

error(l, msg) ==
    IF l.err = <<>>
    THEN [l EXCEPT !.err = <<[Location |-> loc(l, l.end - 1), Message |-> msg]>>]
    ELSE l

\* a lower that leaves upper-case letters as they are
lowerIdentity(c) ==
    c

\* func lower(ch rune) rune { return ('a' - 'A') | ch }: bit 5 of ch set
lower(c) ==
    IF (c \div 32) % 2 = 1 THEN c ELSE c + 32

digitVal(c) ==
    IF 48 <= c /\ c <= 57 THEN c - 48
    ELSE IF 97 <= lower(c) /\ lower(c) <= 102 THEN lower(c) - 97 + 10
    ELSE 16

\* scanDigits: the loop condition n > 0 && digitVal(ch) < base
scanDigitsMore(c, b, k) ==
    k > 0 /\ digitVal(c) < b

\* a test that lets a literal run over line ends
IsLiteralEndEofOnly(c) ==
    c = eof

\* a test that forgets end-of-input
IsLiteralEndNewlineOnly(c) ==
    c = NL

\* scanString line 188: ch == '\n' || ch == eof
IsLiteralEnd(c) ==
    c = NL \/ c = eof

\* scanEscape: case 'a', 'b', 'f', 'n', 'r', 't', 'v', '\\', quote
IsSimpleEscape(c, q) ==
    c \in {97, 98, 102, 110, 114, 116, 118, 92, q}

\* scanEscape: case '0', '1', '2', '3', '4', '5', '6', '7'
IsOctalEscape(c, q) ==
    ~IsSimpleEscape(c, q) /\ c \in 48..55

\* scanEscape: case 'x', case 'u', case 'U'
IsHexEscape(c, q) ==
    ~IsSimpleEscape(c, q) /\ c \in {120, 117, 85}

\* scanEscape: the count handed to scanDigits for 'x', 'u' and 'U'
HexDigits(c) ==
    IF c = 120 THEN 2 ELSE IF c = 117 THEN 4 ELSE 8

---------------------------------------------------------------------------
(* Inputs of the operations *)

\* the runes inputs are made of: 'a', '\n' and the two-byte rune U+00E9
Alphabet == {97, NL, 233}

\* Lex: input: source.Content(), the encoding of the source's runes
Inputs ==
    {EncodeString(rs) : rs \in UNION {[1..k -> Alphabet] : k \in 0..MaxLen}}

\* the character sets handed to accept and acceptRun: "a\u00e9" and "\n"
ValidSets == {<<97, 233>>, <<NL>>}

\* the literals handed to acceptWord: "a\u00e9"
Words == {<<97, 233>>}

\* the kinds handed to emit and emitValue
Kinds == {"Identifier"}

\* the values handed to emitValue: the string "v", which no input contains
Values == {<<118>>}

\* the messages handed to error
Messages == {"unrecognized character"}

---------------------------------------------------------------------------
(* The state after construction, Lex lines 12-15 *)

InitLexer ==
    /\ tokens = <<>>
    /\ start = 0
    /\ end = 0
    /\ width = 0
    /\ err = <<>>
    /\ pc = "idle"
    /\ quote = 0
    /\ ch = 0
    /\ n = 0
    /\ base = 0
    /\ dn = 0
    /\ panicked = FALSE
    /\ call = [op |-> "Lex", arg |-> <<>>, ret |-> "none"]
    /\ nsb = FALSE
    /\ direct = TRUE
    /\ suppressed = FALSE

Init ==
    /\ input \in Inputs
    /\ InitLexer

---------------------------------------------------------------------------
(* One action per operation a state function may call on the lexer *)

\* the lexer struct after the operation is stored back
Commit(l) ==
    \E v \in {l} :
        /\ input' = v.input
        /\ tokens' = v.tokens
        /\ start' = v.start
        /\ end' = v.end
        /\ width' = v.width
        /\ err' = v.err

\* a slice expression out of range: the run ends in a run-time panic
Panic(op, arg) ==
    /\ panicked' = TRUE
    /\ call' = [op |-> op, arg |-> arg, ret |-> "panic"]
    /\ UNCHANGED <<input, tokens, start, end, width, err,
                   nsb, direct, suppressed>>

\* l.input[l.end:] of next() needs 0 <= end
NextInRange == end >= 0

\* l.input[l.start:l.end] of word() needs 0 <= start <= end <= len(input)
WordInRange == 0 <= start /\ start <= end /\ end <= Len(input)

Ready == pc = "idle" /\ ~panicked

\* history: <<the offset end had before it>> when the last operation was a
\* next() of the state function, <<>> otherwise
OwnNext ==
    IF call.op = "next" /\ ~panicked THEN <<end - width>> ELSE <<>>

NextOp ==
    /\ Ready
    /\ IF ~NextInRange THEN Panic("next", <<>>)
       ELSE LET nx == next(L)
            IN  /\ Commit(nx.l)
                /\ call' = [op |-> "next", arg |-> <<>>, ret |-> nx.r]
                /\ nsb' = TRUE
                /\ UNCHANGED <<panicked, direct, suppressed>>
    /\ UNCHANGED scanVars

PeekOp ==
    /\ Ready
    /\ IF ~NextInRange THEN Panic("peek", <<>>)
       ELSE LET pk == peek(L)
            IN  /\ Commit(pk.l)
                /\ call' = [op |-> "peek", arg |-> <<>>, ret |-> pk.r,
                            own |-> OwnNext]
                /\ UNCHANGED <<panicked, nsb, direct, suppressed>>
    /\ UNCHANGED scanVars

\* backup()'s contract: a state function calls it at most once per next()
\* call of its own, so only when it called next() since its last backup()
BackupOp ==
    /\ Ready
    /\ nsb
    /\ Commit(backup(L))
    /\ call' = [op |-> "backup", arg |-> <<>>, ret |-> "none"]
    /\ nsb' = FALSE
    /\ direct' = (direct /\ call.op = "next")
    /\ UNCHANGED <<panicked, suppressed>>
    /\ UNCHANGED scanVars

AcceptOp(valid) ==
    /\ Ready
    /\ IF ~NextInRange THEN Panic("accept", valid)
       ELSE LET ac == accept(L, valid)
            IN  /\ Commit(ac.l)
                /\ call' = [op |-> "accept", arg |-> valid, ret |-> ac.r]
                /\ UNCHANGED <<panicked, nsb, direct, suppressed>>
    /\ UNCHANGED scanVars

AcceptRunOp(valid) ==
    /\ Ready
    /\ IF ~NextInRange THEN Panic("acceptRun", valid)
       ELSE /\ Commit(acceptRun(L, valid))
            /\ call' = [op |-> "acceptRun", arg |-> valid, ret |-> "none"]
            /\ UNCHANGED <<panicked, nsb, direct, suppressed>>
    /\ UNCHANGED scanVars

AcceptWordOp(w) ==
    /\ Ready
    /\ IF w # <<>> /\ ~NextInRange THEN Panic("acceptWord", w)
       ELSE LET aw == acceptWord(L, w)
            IN  /\ Commit(aw.l)
                /\ call' = [op |-> "acceptWord", arg |-> w, ret |-> aw.r,
                            own |-> OwnNext]
                /\ UNCHANGED <<panicked, nsb, direct, suppressed>>
    /\ UNCHANGED scanVars

EmitOp(t) ==
    /\ Ready
    /\ Len(tokens) < MaxTokens
    /\ IF ~WordInRange THEN Panic("emit", t)
       ELSE /\ Commit(emit(L, t))
            /\ call' = [op |-> "emit", arg |-> t, ret |-> "none"]
            /\ UNCHANGED <<panicked, nsb, direct, suppressed>>
    /\ UNCHANGED scanVars

EmitValueOp(t, value) ==
    /\ Ready
    /\ Len(tokens) < MaxTokens
    /\ Commit(emitValue(L, t, value))
    /\ call' = [op |-> "emitValue", arg |-> <<t, value>>, ret |-> "none"]
    /\ UNCHANGED <<panicked, nsb, direct, suppressed>>
    /\ UNCHANGED scanVars

EmitEOFOp ==
    /\ Ready
    /\ Len(tokens) < MaxTokens
    /\ Commit(emitEOF(L))
    /\ call' = [op |-> "emitEOF", arg |-> <<>>, ret |-> "none"]
    /\ UNCHANGED <<panicked, nsb, direct, suppressed>>
    /\ UNCHANGED scanVars

IgnoreOp ==
    /\ Ready
    /\ Commit(ignore(L))
    /\ call' = [op |-> "ignore", arg |-> <<>>, ret |-> "none"]
    /\ UNCHANGED <<panicked, nsb, direct, suppressed>>
    /\ UNCHANGED scanVars

ErrorOp(msg) ==
    /\ Ready
    /\ Commit(error(L, msg))
    /\ call' = [op |-> "error", arg |-> msg, ret |-> "nil"]
    /\ suppressed' = (suppressed \/ err # <<>>)
    /\ UNCHANGED <<panicked, nsb, direct>>
    /\ UNCHANGED scanVars

---------------------------------------------------------------------------
(* scanString, scanEscape and scanDigits, one step per loop test or call.  *)
(* pc names the function whose code runs next; while it is not "idle" the  *)
(* state function that called scanString waits for it to return.           *)

\* scanString lines 185-186: ch := l.next()
ScanStringCall(q) ==
    /\ Ready
    /\ IF ~NextInRange
       THEN Panic("scanString", q) /\ UNCHANGED scanVars
       ELSE LET nx == next(L)
            IN  /\ Commit(nx.l)
                /\ pc' = "scanString"
                /\ quote' = q
                /\ ch' = nx.r
                /\ n' = 0
                /\ call' = [op |-> "scanString", arg |-> q, ret |-> "running",
                            at |-> end, calls |-> 1]
                /\ UNCHANGED <<base, dn, panicked, nsb, direct, suppressed>>

\* scanString line 187 fails, line 199: the closing quote was read
ScanStringReturn ==
    /\ pc = "scanString"
    /\ ch = quote
    /\ pc' = "idle"
    /\ call' = [op |-> "scanString", arg |-> quote, ret |-> n]
    /\ quote' = 0
    /\ ch' = 0
    /\ n' = 0
    /\ UNCHANGED <<input, tokens, start, end, width, err, base, dn,
                   panicked, nsb, direct, suppressed>>

\* scanString lines 188-191
ScanStringNotTerminated ==
    /\ pc = "scanString"
    /\ ch # quote
    /\ IsLiteralEnd(ch)
    /\ Commit(error(L, "literal not terminated"))
    /\ suppressed' = (suppressed \/ err # <<>>)
    /\ pc' = "idle"
    /\ call' = [op |-> "scanString", arg |-> quote, ret |-> n]
    /\ quote' = 0
    /\ ch' = 0
    /\ n' = 0
    /\ UNCHANGED <<base, dn, panicked, nsb, direct>>

\* scanString lines 194-197: a plain character
ScanStringPlain ==
    /\ pc = "scanString"
    /\ ch # quote
    /\ ~IsLiteralEnd(ch)
    /\ ch # 92
    /\ LET nx == next(L)
       IN  /\ Commit(nx.l)
           /\ ch' = nx.r
           /\ n' = n + 1
    /\ call' = [call EXCEPT !.calls = @ + 1]
    /\ UNCHANGED <<pc, quote, base, dn, panicked, nsb, direct, suppressed>>

\* scanString lines 192-193 and scanEscape line 166: ch := l.next()
ScanEscapeCall ==
    /\ pc = "scanString"
    /\ ch # quote
    /\ ~IsLiteralEnd(ch)
    /\ ch = 92
    /\ LET nx == next(L)
       IN  /\ Commit(nx.l)
           /\ ch' = nx.r
    /\ pc' = "scanEscape"
    /\ call' = [call EXCEPT !.calls = @ + 1]
    /\ UNCHANGED <<quote, n, base, dn, panicked, nsb, direct, suppressed>>

\* a scanner that counts a single-letter escape as two elements
ScanEscapeSimpleCountsTwo ==
    /\ pc = "scanEscape"
    /\ IsSimpleEscape(ch, quote)
    /\ LET nx == next(L)
       IN  /\ Commit(nx.l)
           /\ ch' = nx.r
    /\ n' = n + 2
    /\ pc' = "scanString"
    /\ call' = [call EXCEPT !.calls = @ + 1]
    /\ UNCHANGED <<quote, base, dn, panicked, nsb, direct, suppressed>>

\* scanEscape lines 168-170, then scanString line 197
ScanEscapeSimple ==
    /\ pc = "scanEscape"
    /\ IsSimpleEscape(ch, quote)
    /\ LET nx == next(L)
       IN  /\ Commit(nx.l)
           /\ ch' = nx.r
    /\ n' = n + 1
    /\ pc' = "scanString"
    /\ call' = [call EXCEPT !.calls = @ + 1]
    /\ UNCHANGED <<quote, base, dn, panicked, nsb, direct, suppressed>>

\* an octal escape that wants three digits after the triggering digit
ScanEscapeOctalFour ==
    /\ pc = "scanEscape"
    /\ IsOctalEscape(ch, quote)
    /\ base' = 8
    /\ dn' = 4
    /\ pc' = "scanDigits"
    /\ UNCHANGED <<input, tokens, start, end, width, err, quote, ch, n,
                   panicked, call, nsb, direct, suppressed>>

\* scanEscape lines 171-172: scanDigits(ch, 8, 3) is entered
ScanEscapeOctal ==
    /\ pc = "scanEscape"
    /\ IsOctalEscape(ch, quote)
    /\ base' = 8
    /\ dn' = 3
    /\ pc' = "scanDigits"
    /\ UNCHANGED <<input, tokens, start, end, width, err, quote, ch, n,
                   panicked, call, nsb, direct, suppressed>>

\* scanEscape lines 173-178: scanDigits(l.next(), 16, 2 or 4 or 8) is entered
ScanEscapeHex ==
    /\ pc = "scanEscape"
    /\ IsHexEscape(ch, quote)
    /\ LET nx == next(L)
       IN  /\ Commit(nx.l)
           /\ ch' = nx.r
    /\ base' = 16
    /\ dn' = HexDigits(ch)
    /\ pc' = "scanDigits"
    /\ call' = [call EXCEPT !.calls = @ + 1]
    /\ UNCHANGED <<quote, n, panicked, nsb, direct, suppressed>>

\* scanEscape lines 179-182, then scanString line 197
ScanEscapeInvalid ==
    /\ pc = "scanEscape"
    /\ ~IsSimpleEscape(ch, quote)
    /\ ~IsOctalEscape(ch, quote)
    /\ ~IsHexEscape(ch, quote)
    /\ Commit(error(L, "invalid char escape"))
    /\ suppressed' = (suppressed \/ err # <<>>)
    /\ call' = [call EXCEPT !.ret = "reported"]
    /\ n' = n + 1
    /\ pc' = "scanString"
    /\ UNCHANGED <<quote, ch, base, dn, panicked, nsb, direct>>

\* scanDigits lines 155-158: one turn of the loop
ScanDigitsLoop ==
    /\ pc = "scanDigits"
    /\ scanDigitsMore(ch, base, dn)
    /\ LET nx == next(L)
       IN  /\ Commit(nx.l)
           /\ ch' = nx.r
    /\ dn' = dn - 1
    /\ call' = [call EXCEPT !.calls = @ + 1]
    /\ UNCHANGED <<pc, quote, n, base, panicked, nsb, direct, suppressed>>

\* scanDigits lines 159-162, the return of scanEscape, then scanString line 197
ScanDigitsReturn ==
    /\ pc = "scanDigits"
    /\ ~scanDigitsMore(ch, base, dn)
    /\ IF dn > 0
       THEN /\ Commit(error(L, "invalid char escape"))
            /\ suppressed' = (suppressed \/ err # <<>>)
            /\ call' = [call EXCEPT !.ret = "reported"]
       ELSE UNCHANGED <<input, tokens, start, end, width, err, suppressed, call>>
    /\ n' = n + 1
    /\ base' = 0
    /\ dn' = 0
    /\ pc' = "scanString"
    /\ UNCHANGED <<quote, ch, panicked, nsb, direct>>

\* acceptRun, one step per test of its loop condition, for the claims
\* about its loop; AcceptRunOp above is the same code as one step.
\* acceptRun line 96: the call, with valid kept in call.arg
AcceptRunCall(valid) ==
    /\ Ready
    /\ pc' = "acceptRun"
    /\ call' = [op |-> "acceptRun", arg |-> valid, ret |-> "running",
                at |-> end, calls |-> 0]
    /\ UNCHANGED <<input, tokens, start, end, width, err, quote, ch, n, base, dn,
                   panicked, nsb, direct, suppressed>>

\* acceptRun line 97: next() read a character of valid, the loop goes on
AcceptRunLoop ==
    /\ pc = "acceptRun"
    /\ ~panicked
    /\ NextInRange
    /\ ContainsRune(call.arg, next(L).r)
    /\ Commit(next(L).l)
    /\ call' = [call EXCEPT !.calls = @ + 1]
    /\ UNCHANGED <<pc, quote, ch, n, base, dn, panicked, nsb, direct, suppressed>>

\* acceptRun lines 97-100: next() read another character or eof (or panics
\* on end < 0); backup and return
AcceptRunReturn ==
    /\ pc = "acceptRun"
    /\ ~panicked
    /\ IF ~NextInRange
       THEN Panic("acceptRun", call.arg) /\ UNCHANGED scanVars
       ELSE /\ ~ContainsRune(call.arg, next(L).r)
            /\ Commit(backup(next(L).l))
            /\ pc' = "idle"
            /\ call' = [op |-> "acceptRun", arg |-> call.arg, ret |-> "none"]
            /\ UNCHANGED <<quote, ch, n, base, dn, panicked, nsb, direct, suppressed>>

\* the quote characters a state function hands to scanString: '"' and '\''
Quotes == {34}

---------------------------------------------------------------------------
(* The end of Lex: the driver loop has ended and Lex returns *)

\* a Lex that hands out the tokens emitted before the error
LexResultPartial(l) ==
    IF l.err # <<>>
    THEN [tokensNil |-> FALSE, tokens |-> l.tokens,
          err |-> <<[Format |-> l.err[1]]>>]
    ELSE [tokensNil |-> FALSE, tokens |-> l.tokens, err |-> <<>>]

\* Lex lines 20-24: (nil, the formatted error) or (l.tokens, nil)
LexResult(l) ==
    IF l.err # <<>>
    THEN [tokensNil |-> TRUE, tokens |-> <<>>,
          err |-> <<[Format |-> l.err[1]]>>]
    ELSE [tokensNil |-> FALSE, tokens |-> l.tokens, err |-> <<>>]

\* Lex lines 16-24: a state function returned nil, the loop ends, Lex returns
LexReturn ==
    /\ Ready
    /\ pc' = "done"
    /\ call' = [op |-> "Lex", arg |-> <<>>, ret |-> LexResult(L)]
    /\ UNCHANGED <<input, tokens, start, end, width, err, quote, ch, n, base, dn,
                   panicked, nsb, direct, suppressed>>

---------------------------------------------------------------------------
(* The cursor specification: the cursor operations, ignore and error, on   *)
(* inputs of 'a', newline and a two-byte rune                              *)

NextCursor ==
    \/ NextOp
    \/ PeekOp
    \/ BackupOp
    \/ \E valid \in ValidSets : AcceptOp(valid)
    \/ \E valid \in ValidSets : AcceptRunOp(valid)
    \/ \E w \in Words : AcceptWordOp(w)
    \/ IgnoreOp
    \/ \E msg \in Messages : ErrorOp(msg)

SpecCursor == Init /\ [][NextCursor]_vars

(* The emitter specification: tokens are emitted from spans made by next   *)
(* and backup                                                              *)

NextEmit ==
    \/ NextOp
    \/ BackupOp
    \/ \E t \in Kinds : EmitOp(t)
    \/ \E t \in Kinds, value \in Values : EmitValueOp(t, value)
    \/ EmitEOFOp

SpecEmit == Init /\ [][NextEmit]_vars

(* The coverage specification: the cursor operations and emit only *)

NextCover ==
    \/ NextOp
    \/ PeekOp
    \/ BackupOp
    \/ \E valid \in ValidSets : AcceptOp(valid)
    \/ \E valid \in ValidSets : AcceptRunOp(valid)
    \/ \E w \in Words : AcceptWordOp(w)
    \/ \E t \in Kinds : EmitOp(t)

SpecCover == Init /\ [][NextCover]_vars

(* The driver specification: tokens are emitted, errors are reported, and  *)
(* Lex returns when a state function ends the loop                         *)

NextLex ==
    \/ NextOp
    \/ \E t \in Kinds : EmitOp(t)
    \/ EmitEOFOp
    \/ \E msg \in Messages : ErrorOp(msg)
    \/ LexReturn

SpecLex == Init /\ [][NextLex]_vars

(* The scanner specification: the cursor is moved by next, and string      *)
(* literals are scanned from wherever it stands                            *)

\* runes in an input of the scanner specification
MaxScanLen == 4

\* 'a', newline, '"', '\\', '1', '8', 'x' and the two-byte rune U+00E9
ScanAlphabet == {97, NL, 34, 92, 49, 56, 120, 233}

ScanInputs ==
    {EncodeString(rs) : rs \in UNION {[1..k -> ScanAlphabet] : k \in 0..MaxScanLen}}

InitScan ==
    /\ input \in ScanInputs
    /\ InitLexer

ScanStep ==
    \/ ScanStringReturn
    \/ ScanStringNotTerminated
    \/ ScanStringPlain
    \/ ScanEscapeCall
    \/ ScanEscapeSimple
    \/ ScanEscapeOctal
    \/ ScanEscapeHex
    \/ ScanEscapeInvalid
    \/ ScanDigitsLoop
    \/ ScanDigitsReturn

NextScan ==
    \/ NextOp
    \/ \E q \in Quotes : ScanStringCall(q)
    \/ ScanStep

SpecScan == InitScan /\ [][NextScan]_vars

(* The escape specification: literal bodies made of whole elements (plain  *)
(* characters, escapes of every form, well-formed or not), scanned while   *)
(* no error is recorded: the driver stops calling state functions then     *)

\* elements in a literal body of the escape specification
MaxElems == 2

\* a, U+00E9, \", \111, \1, \x1A, \x1, \u1a1A, \U1111111a, \q, 1
EscapeElements ==
    { <<97>>, <<233>>, <<92, 34>>, <<92, 49, 49, 49>>, <<92, 49>>,
      <<92, 120, 49, 65>>, <<92, 120, 49>>, <<92, 117, 49, 97, 49, 65>>,
      <<92, 85, 49, 49, 49, 49, 49, 49, 49, 97>>, <<92, 113>>, <<49>> }

\* what ends a body: nothing (end-of-input), the closing quote, a newline
Terminators == { <<>>, <<34>>, <<NL>> }

RECURSIVE Flatten(_)
Flatten(es) ==
    IF es = <<>> THEN <<>> ELSE Head(es) \o Flatten(Tail(es))

EscapeInputs ==
    {EncodeString(Flatten(es) \o t) :
        es \in UNION {[1..k -> EscapeElements] : k \in 0..MaxElems},
        t \in Terminators}

InitEscape ==
    /\ input \in EscapeInputs
    /\ InitLexer

NextEscape ==
    \/ err = <<>> /\ NextOp
    \/ err = <<>> /\ \E q \in Quotes : ScanStringCall(q)
    \/ ScanStep

SpecEscape == InitEscape /\ [][NextEscape]_vars

(* The loop specification: scanString and acceptRun run step by step on    *)
(* literal bodies with escapes of every loop shape. A function that was    *)
(* called keeps running: its next step is taken whenever one is enabled    *)

\* a, U+00E9, \", \1, \x1A, \U1111111a, \q
LoopElements ==
    { <<97>>, <<233>>, <<92, 34>>, <<92, 49>>, <<92, 120, 49, 65>>,
      <<92, 85, 49, 49, 49, 49, 49, 49, 49, 97>>, <<92, 113>> }

LoopInputs ==
    {EncodeString(Flatten(es) \o t) :
        es \in UNION {[1..k -> LoopElements] : k \in 0..MaxElems},
        t \in Terminators}

InitLoops ==
    /\ input \in LoopInputs
    /\ InitLexer

LoopStep ==
    \/ ScanStep
    \/ AcceptRunLoop
    \/ AcceptRunReturn

NextLoops ==
    \/ err = <<>> /\ NextOp
    \/ err = <<>> /\ \E q \in Quotes : ScanStringCall(q)
    \/ err = <<>> /\ \E valid \in ValidSets : AcceptRunCall(valid)
    \/ LoopStep

SpecLoops == InitLoops /\ [][NextLoops]_vars /\ WF_vars(LoopStep)

(* The whole engine: every operation, on short inputs *)

\* runes in an input of the whole-engine specification
MaxAllLen == 2

\* tokens a run of the whole-engine specification may emit
MaxAllTokens == 1

\* 'a', newline, '"', '\\', '1', 'x' and the two-byte rune U+00E9
AllAlphabet == {97, NL, 34, 92, 49, 120, 233}

AllInputs ==
    {EncodeString(rs) : rs \in UNION {[1..k -> AllAlphabet] : k \in 0..MaxAllLen}}

InitAll ==
    /\ input \in AllInputs
    /\ InitLexer

Next ==
    \/ NextCursor
    \/ Len(tokens) < MaxAllTokens /\ \E t \in Kinds : EmitOp(t)
    \/ Len(tokens) < MaxAllTokens /\ \E t \in Kinds, value \in Values : EmitValueOp(t, value)
    \/ Len(tokens) < MaxAllTokens /\ EmitEOFOp
    \/ \E q \in Quotes : ScanStringCall(q)
    \/ ScanStep

Spec == InitAll /\ [][Next]_vars

---------------------------------------------------------------------------
(* Properties *)

\* the last element of a non-empty sequence
Last(q) == q[Len(q)]

\* 0 <= start <= end <= len(input)
CursorInRange ==
    0 <= start /\ start <= end /\ end <= Len(input)

\* C1, as stated: in every state reached by the operations, with backup
\* called at most once after each next (the contract every run of the
\* specification keeps), 0 <= start <= end <= len(input).
C1_InvariantAsStated ==
    CursorInRange

\* C1, amended: while every backup of a state function has come right after
\* a next of that state function, with no other operation between the two,
\* 0 <= start <= end <= len(input).
C1_InvariantDirectBackup ==
    direct => CursorInRange

\* a backup right after next, in a run that closed a span before
C1_Witness ==
    /\ direct
    /\ call.op = "backup"
    /\ start > 0
    /\ end = start

\* C2: once an error is recorded, no later step changes the record, and
\* there is never more than one record.
C2_FirstErrorWins ==
    /\ [](Len(err) <= 1)
    /\ [][err # <<>> => err' = err]_vars

\* an unterminated literal whose first error was an invalid escape
C2_Witness ==
    /\ suppressed
    /\ pc = "idle"
    /\ call.op = "scanString"
    /\ err # <<>>
    /\ err[1].Message = "invalid char escape"

\* C3, as stated: once a call of the string scanner has reported an error,
\* that call consumes no further character (end does not change).
C3_FailFast ==
    [][(pc # "idle" /\ call.ret = "reported") => end' = end]_vars

\* the operation of the step is op, and it returned
Returned(op) ==
    ~panicked' /\ call'.op = op

\* the offsets from..to of s hold only runes of valid
AllAccepted(s, from, to, valid) ==
    LET rs == Runes(SubSeq(s, from + 1, to))
    IN  \A i \in 1..Len(rs) : ContainsRune(valid, rs[i])

\* e is the offset of the first rune of s at or after pos that is not in
\* valid, or len(s) if there is none
FirstRejectedAt(s, pos, e, valid) ==
    /\ pos <= e
    /\ e <= Len(s)
    /\ AllAccepted(s, pos, e, valid)
    /\ \/ e = Len(s)
       \/ ~ContainsRune(valid, DecodeRuneInString(SubSeq(s, e + 1, Len(s))).r)

\* C4: an accept that returns false leaves end where it was, and acceptRun
\* leaves end at the first character, at or after the old end, that is not
\* in the set (at len(input) if there is none).
C4_Rollback ==
    [][/\ (Returned("accept") /\ call'.ret = FALSE) => end' = end
       /\ Returned("acceptRun") => FirstRejectedAt(input, end, end', call'.arg)
      ]_vars

\* an acceptRun that consumed several characters and stopped before a newline
C4_Witness ==
    /\ ~panicked
    /\ call.op = "acceptRun"
    /\ end >= 3
    /\ end < Len(input)
    /\ input[end + 1] = NL

\* the bytes p stand in s at offset off
HasPrefixAt(s, off, p) ==
    /\ off + Len(p) <= Len(s)
    /\ SubSeq(s, off + 1, off + Len(p)) = p

\* C5: acceptWord returns true with end advanced by the encoded length of
\* the word, which the input holds at the old end, or it returns false with
\* end where it was.
C5_AllOrNothing ==
    [][Returned("acceptWord") =>
         LET w == EncodeString(call'.arg)
         IN  \/ /\ call'.ret = TRUE
                /\ end' = end + Len(w)
                /\ HasPrefixAt(input, end, w)
             \/ /\ call'.ret = FALSE
                /\ end' = end
      ]_vars

\* a mismatch by end-of-input after the first character of the word matched
C5_Witness ==
    /\ ~panicked
    /\ call.op = "acceptWord"
    /\ call.ret = FALSE
    /\ Len(input) = end + 1
    /\ input[end + 1] = call.arg[1]

\* C6: peek returns what next would return and leaves end, start, tokens
\* and err as they were.
C6_PeekNoConsumption ==
    [][Returned("peek") =>
         /\ call'.ret = next(L).r
         /\ end' = end
         /\ start' = start
         /\ tokens' = tokens
         /\ err' = err
      ]_vars

\* a two-byte rune was peeked
C6_Witness ==
    /\ ~panicked
    /\ call.op = "peek"
    /\ call.ret = 233
    /\ end > 0

\* C7: emit appends one token with the pending word as Value and
\* loc(start) as Location, keeps the earlier tokens, and sets start = end;
\* emitValue does the same with the value it is given.
C7_EmitAppends ==
    [][/\ Returned("emit") =>
            /\ tokens' = Append(tokens, [Location |-> loc(L, start),
                                         Kind |-> call'.arg,
                                         Value |-> SubSeq(input, start + 1, end)])
            /\ start' = end
            /\ end' = end
       /\ Returned("emitValue") =>
            /\ tokens' = Append(tokens, [Location |-> loc(L, start),
                                         Kind |-> call'.arg[1],
                                         Value |-> call'.arg[2]])
            /\ start' = end
            /\ end' = end
      ]_vars

\* a second token with a non-empty word was emitted
C7_Witness ==
    /\ ~panicked
    /\ call.op = "emit"
    /\ Len(tokens) = 2
    /\ tokens[2].Value # <<>>
    /\ start = end

\* the Values of the non-EOF tokens, concatenated in emission order
RECURSIVE ConcatValues(_)
ConcatValues(ts) ==
    IF ts = <<>> THEN <<>>
    ELSE (IF Head(ts).Kind = "EOF" THEN <<>> ELSE Head(ts).Value)
         \o ConcatValues(Tail(ts))

\* C8: in a run of cursor operations and emit alone that ends with
\* start = end = len(input), the token Values concatenate to the input.
C8_RoundTrip ==
    (~panicked /\ start = end /\ end = Len(input))
        => ConcatValues(tokens) = input

\* an input of three runes or more was covered by two non-empty tokens
C8_Witness ==
    /\ ~panicked
    /\ start = end
    /\ end = Len(input)
    /\ Len(tokens) = 2
    /\ tokens[1].Value # <<>>
    /\ tokens[2].Value # <<>>
    /\ Len(input) >= 3

\* every rune of s takes one byte
SingleUnit(s) ==
    \A i \in 1..Len(s) : s[i] < 128

\* the line and column of offset off as C9 states them: one more than the
\* newlines before off, and the characters since the last of them
StatedLocation(s, off) ==
    LET nls == {j \in 1..off : s[j] = NL}
        lastNL == IF nls = {} THEN 0 ELSE CHOOSE j \in nls : \A k \in nls : k <= j
    IN  [Line |-> 1 + Cardinality(nls), Column |-> off - lastNL]

\* C9: on an input of one-byte characters, loc(offset) is line 1 + the
\* number of newlines before offset and column the number of characters
\* since the last of them, for every offset from 0 to len(input); so are
\* the Locations of the tokens emit and emitValue append.
C9_Location ==
    /\ [](SingleUnit(input) =>
            \A off \in 0..Len(input) : loc(L, off) = StatedLocation(input, off))
    /\ [][(SingleUnit(input) /\ (Returned("emit") \/ Returned("emitValue")))
            => Last(tokens').Location = StatedLocation(input, start)]_vars

\* the input a, newline, a: the token of the second a is at line 2, column 0
C9_Witness ==
    /\ input = <<97, NL, 97>>
    /\ call.op = "emit"
    /\ Len(tokens) = 2
    /\ tokens[1].Location = [Line |-> 1, Column |-> 0]
    /\ tokens[2].Value = <<97>>
    /\ tokens[2].Location = [Line |-> 2, Column |-> 0]

\* the location a tracker that counts one column per decoded character has
\* when the cursor reaches byte offset p
RECURSIVE TrackedLocation(_, _, _, _, _)
TrackedLocation(s, off, p, line, column) ==
    IF off >= p \/ off >= Len(s) THEN [Line |-> line, Column |-> column]
    ELSE LET d == DecodeRuneInString(SubSeq(s, off + 1, Len(s)))
         IN  IF d.r = NL
             THEN TrackedLocation(s, off + d.w, p, line + 1, 0)
             ELSE TrackedLocation(s, off + d.w, p, line, column + 1)

\* byte offset p of s is where a rune starts, or the end of s
RuneBoundary(s, p) ==
    \E k \in 0..Len(Runes(s)) : Len(EncodeString(SubSeq(Runes(s), 1, k))) = p

\* C10, as stated: on an input with a multi-byte character, a token emitted
\* with start at a character boundary gets the Location a per-character
\* tracker has there.
C10_DecodedColumns ==
    [][(/\ ~SingleUnit(input)
        /\ Returned("emit") \/ Returned("emitValue")
        /\ RuneBoundary(input, start))
          => Last(tokens').Location = TrackedLocation(input, 0, start, 1, 0)]_vars

\* the location of the last character of s, counted per decoded character
LastCharLocation(s) ==
    LET rs == Runes(s)
    IN  TrackedLocation(s, 0, Len(EncodeString(SubSeq(rs, 1, Len(rs) - 1))), 1, 0)

\* C11, as stated: emitEOF appends one token of kind EOF whose Location is
\* loc(end - 1), whatever the pending span is, and keeps the earlier tokens;
\* when end = len(input) > 0 that Location is the one of the last character
\* of the input.
C11_EOFLocationFromEnd ==
    [][Returned("emitEOF") =>
         /\ tokens' = Append(tokens, [Location |-> loc(L, end - 1),
                                      Kind |-> "EOF", Value |-> <<>>])
         /\ (end = Len(input) /\ end > 0)
               => Last(tokens').Location = LastCharLocation(input)
      ]_vars

\* C12: on the empty input, emitEOF called right after next read
\* end-of-input, with nothing emitted before, leaves exactly one token, of
\* kind EOF at line 1, column 0, and no error.
C12_EmptyInput ==
    [][(/\ input = <<>>
        /\ call.op = "next"
        /\ call.ret = eof
        /\ tokens = <<>>
        /\ Returned("emitEOF"))
          => /\ tokens' = <<[Location |-> [Line |-> 1, Column |-> 0],
                             Kind |-> "EOF", Value |-> <<>>]>>
             /\ err' = <<>>
      ]_vars

\* the empty input was read to its end and the EOF token emitted
C12_Witness ==
    /\ input = <<>>
    /\ ~panicked
    /\ call.op = "emitEOF"
    /\ nsb
    /\ Len(tokens) = 1
    /\ end = 0

\* C13: when Lex returns with an error recorded, it returns no token
\* sequence (nil) and the error, however many tokens were emitted; when it
\* returns with no error recorded, it returns the accumulated tokens, in the
\* order they were emitted, and no error.
C13_LexResult ==
    [][Returned("Lex") =>
         IF err # <<>>
         THEN /\ call'.ret.tokensNil
              /\ call'.ret.tokens = <<>>
              /\ call'.ret.err = <<[Format |-> err[1]]>>
         ELSE /\ ~call'.ret.tokensNil
              /\ call'.ret.tokens = tokens
              /\ call'.ret.err = <<>>
      ]_vars

\* Lex returned with an error recorded after two tokens were emitted
C13_Witness ==
    /\ pc = "done"
    /\ call.op = "Lex"
    /\ err # <<>>
    /\ Len(tokens) = 2
    /\ call.ret.tokensNil

\* from offset p of s, a newline or the end of s comes before a quote q that
\* no backslash escapes (a backslash escapes the character after it)
RECURSIVE Unterminated(_, _, _)
Unterminated(s, p, q) ==
    IF p >= Len(s) THEN TRUE
    ELSE LET d == DecodeRuneInString(SubSeq(s, p + 1, Len(s)))
         IN  IF d.r = NL THEN TRUE
             ELSE IF d.r = q THEN FALSE
             ELSE IF d.r = 92
                  THEN IF p + 1 >= Len(s) THEN TRUE
                       ELSE Unterminated(s,
                              p + 1 + DecodeRuneInString(SubSeq(s, p + 2, Len(s))).w, q)
             ELSE Unterminated(s, p + d.w, q)

\* the step is the return of a scanString that was called just after an
\* opening quote
ScanStringReturns ==
    /\ pc = "scanString"
    /\ pc' = "idle"
    /\ call.at > 0
    /\ input[call.at] = quote

\* C14: a scanString called just after an opening quote records 'literal
\* not terminated' if and only if no error was recorded before and a newline
\* or end-of-input comes before an unescaped matching quote.
C14_NotTerminated ==
    [][ScanStringReturns =>
         ((err' # err /\ err'[1].Message = "literal not terminated")
            <=> (err = <<>> /\ Unterminated(input, call.at, quote)))
      ]_vars

\* the input "aaa: the literal runs into end-of-input after three characters
C14_Witness ==
    /\ input = <<34, 97, 97, 97>>
    /\ pc = "idle"
    /\ call.op = "scanString"
    /\ call.ret = 3
    /\ err # <<>>
    /\ err[1].Message = "literal not terminated"

\* the digits of base 8 and of base 16, by their characters
OctalDigits == 48..55
HexChars == (48..57) \cup (97..102) \cup (65..70)

\* the k bytes of s from offset p on are all in the set ds
DigitsAt(s, p, k, ds) ==
    /\ p + k <= Len(s)
    /\ \A i \in 1..k : s[p + i] \in ds

\* the bytes a well-formed escape takes when its backslash stands at offset
\* p of s, or 0 if no well-formed escape stands there
EscapeLength(s, p, q) ==
    IF p + 1 >= Len(s) THEN 0
    ELSE LET c == s[p + 2]
         IN  IF c \in {97, 98, 102, 110, 114, 116, 118, 92, q} THEN 2
             ELSE IF DigitsAt(s, p + 1, 3, OctalDigits) THEN 4
             ELSE IF c = 120 /\ DigitsAt(s, p + 2, 2, HexChars) THEN 4
             ELSE IF c = 117 /\ DigitsAt(s, p + 2, 4, HexChars) THEN 6
             ELSE IF c = 85 /\ DigitsAt(s, p + 2, 8, HexChars) THEN 10
             ELSE 0

\* the body that starts at offset p of s, read element by element with k
\* elements counted so far: its number of elements and the offset just past
\* its closing quote, or ok = FALSE if it is not plain characters and
\* well-formed escapes up to a closing quote
RECURSIVE ParseBody(_, _, _, _)
ParseBody(s, p, q, k) ==
    IF p >= Len(s) THEN [ok |-> FALSE, n |-> k, end |-> p]
    ELSE LET d == DecodeRuneInString(SubSeq(s, p + 1, Len(s)))
         IN  IF d.r = NL THEN [ok |-> FALSE, n |-> k, end |-> p]
             ELSE IF d.r = q THEN [ok |-> TRUE, n |-> k, end |-> p + d.w]
             ELSE IF d.r = 92
                  THEN IF EscapeLength(s, p, q) = 0
                       THEN [ok |-> FALSE, n |-> k, end |-> p]
                       ELSE ParseBody(s, p + EscapeLength(s, p, q), q, k + 1)
             ELSE ParseBody(s, p + d.w, q, k + 1)

\* C15: when the body a scanString call starts at is plain characters and
\* well-formed escapes up to the closing quote, the call reports no error,
\* returns the number of elements of the body and leaves end just past the
\* closing quote.
C15_ElementCount ==
    [][(/\ pc = "scanString"
        /\ pc' = "idle"
        /\ ParseBody(input, call.at, quote, 0).ok)
          => /\ call.ret = "running"
             /\ err' = err
             /\ call'.ret = ParseBody(input, call.at, quote, 0).n
             /\ end' = ParseBody(input, call.at, quote, 0).end
      ]_vars

\* a body of a \U escape and a two-byte character was counted as 2 elements
C15_Witness ==
    /\ pc = "idle"
    /\ call.op = "scanString"
    /\ call.ret = 2
    /\ err = <<>>
    /\ end = Len(input)
    /\ input = <<92, 85, 49, 49, 49, 49, 49, 49, 49, 97, 195, 169, 34>>

\* the offset of the last backslash of s before offset e
BackslashBefore(s, e) ==
    CHOOSE i \in 0..(e - 1) :
        /\ s[i + 1] = 92
        /\ \A j \in (i + 1)..(e - 1) : s[j + 1] # 92

\* the step is the return of scanEscape to scanString
ScanEscapeReturns ==
    /\ pc \in {"scanEscape", "scanDigits"}
    /\ pc' = "scanString"

\* the character at offset p of s as next() reads it, eof at the end of s
RuneAt(s, p) ==
    IF p >= Len(s) THEN eof ELSE DecodeRuneInString(SubSeq(s, p + 1, Len(s))).r

\* C16: a scanEscape entered with no error recorded records 'invalid char
\* escape' exactly when no well-formed escape stands at its backslash: the
\* character after it is none of a b f n r t v, backslash, the quote, 0-7,
\* x, u, U, or fewer digits follow than the form requires (2, 4, 8
\* hexadecimal digits of either case after x, u, U); when it records none,
\* exactly the escape is consumed: the character scanString looks at next is
\* the one right after the escape's last digit.
C16_FixedLengthEscapes ==
    [][(ScanEscapeReturns /\ err = <<>>) =>
         LET p == BackslashBefore(input, end - width)
             len == EscapeLength(input, p, quote)
         IN  /\ (err' # <<>>) <=> (len = 0)
             /\ err' # <<>> => err'[1].Message = "invalid char escape"
             /\ err' = <<>> =>
                  /\ end' - width' = p + len
                  /\ ch' = RuneAt(input, p + len)
      ]_vars

\* \x with one digit before the closing quote: the escape was refused
C16_Witness ==
    /\ input = <<92, 120, 49, 34>>
    /\ pc = "idle"
    /\ call.op = "scanString"
    /\ call.ret = 1
    /\ end = 4
    /\ err # <<>>
    /\ err[1].Message = "invalid char escape"

\* the number of octal digits, 3 at most, that stand at offset p of s
OctalRun(s, p) ==
    IF DigitsAt(s, p, 3, OctalDigits) THEN 3
    ELSE IF DigitsAt(s, p, 2, OctalDigits) THEN 2
    ELSE IF DigitsAt(s, p, 1, OctalDigits) THEN 1
    ELSE 0

\* the step is the return of a scanEscape that was entered with no error
\* recorded and found an octal digit after its backslash
OctalEscapeReturns ==
    /\ pc = "scanDigits"
    /\ pc' = "scanString"
    /\ base = 8
    /\ err = <<>>

\* C17, as stated: an octal escape consumes its octal digits, 3 at most
\* with the triggering digit, never a fourth, counts as one element, and
\* with one or two digits before a non-octal character records no error.
C17_OctalUpToThree ==
    [][OctalEscapeReturns =>
         LET p == BackslashBefore(input, end - width)
         IN  /\ end' - width' = p + 1 + OctalRun(input, p + 1)
             /\ n' = n + 1
             /\ (p + 1 + OctalRun(input, p + 1) < Len(input)) => err' = <<>>
      ]_vars

\* C17, amended: an octal escape consumes its octal digits, 3 at most with
\* the triggering digit, never a fourth, counts as one element, and records
\* 'invalid char escape' exactly when fewer than 3 octal digits stand there.
C17_OctalExactlyThree ==
    [][OctalEscapeReturns =>
         LET p == BackslashBefore(input, end - width)
         IN  /\ end' - width' = p + 1 + OctalRun(input, p + 1)
             /\ n' = n + 1
             /\ (err' # <<>>) <=> (OctalRun(input, p + 1) < 3)
             /\ err' # <<>> => err'[1].Message = "invalid char escape"
      ]_vars

\* \11 before the closing quote: the two digits were consumed, the escape
\* was counted as one element and refused
C17_Witness ==
    /\ input = <<92, 49, 49, 34>>
    /\ pc = "idle"
    /\ call.op = "scanString"
    /\ call.ret = 1
    /\ end = 4
    /\ err # <<>>
    /\ err[1].Message = "invalid char escape"

\* the location of the character of s that holds byte offset p, counted per
\* decoded character from offset off on; line 1, column 0 for p < 0
RECURSIVE LocationOfByte(_, _, _, _, _)
LocationOfByte(s, off, p, line, column) ==
    IF off >= Len(s) THEN [Line |-> line, Column |-> column]
    ELSE LET d == DecodeRuneInString(SubSeq(s, off + 1, Len(s)))
         IN  IF p < off + d.w THEN [Line |-> line, Column |-> column]
             ELSE IF d.r = NL
                  THEN LocationOfByte(s, off + d.w, p, line + 1, 0)
                  ELSE LocationOfByte(s, off + d.w, p, line, column + 1)

\* C18, as stated: when error records the first error, its Location is the
\* location of the character at offset end - 1, in every state error can
\* be called in: with end = 0 that is line 1, column 0, never a position
\* further into the input.
C18_ErrorLocation ==
    [][(Returned("error") /\ err = <<>>) =>
         /\ err' # <<>>
         /\ err'[1].Location = LocationOfByte(input, 0, end - 1, 1, 0)
      ]_vars

\* scanString, or scanEscape or scanDigits under it, is running
InScanString == pc \in {"scanString", "scanEscape", "scanDigits"}

\* C19: a call of scanString, with its scanEscape and scanDigits calls, and
\* a call of acceptRun eventually return; while they run, a step that calls
\* next() moves end forward or reads end-of-input, after which no further
\* next() is called; the next() calls of one call number at most
\* (len(input) - end at the call) + 1.
C19_Termination ==
    /\ [](InScanString => call.calls <= (Len(input) - call.at) + 1)
    /\ [](pc = "acceptRun" => call.calls <= Len(input) - call.at)
    /\ [][(InScanString /\ pc' # "idle")
            => \/ end' > end /\ call'.calls = call.calls + 1
               \/ end' = end /\ call'.calls = call.calls + 1 /\ ch' = eof
               \/ end' = end /\ call'.calls = call.calls]_vars
    /\ [][(InScanString /\ ch = eof) => (end' = end /\ pc' \in {"scanString", "idle"})]_vars
    /\ [][(pc = "acceptRun" /\ pc' = "acceptRun") => end' > end]_vars
    /\ (InScanString \/ pc = "acceptRun") ~> (pc = "idle")

\* a literal body with an escape ran into end-of-input and scanString
\* returned
C19_Witness ==
    /\ input = <<92, 120, 49, 65, 97>>
    /\ pc = "idle"
    /\ call.op = "scanString"
    /\ call.ret = 2
    /\ end = Len(input)
    /\ err # <<>>

\* an acceptRun that ran to end-of-input returned
C19_WitnessAcceptRun ==
    /\ pc = "idle"
    /\ call.op = "acceptRun"
    /\ call.ret = "none"
    /\ end = Len(input)
    /\ end >= 3

\* the encoded width of the character at offset p of s as next() decodes
\* it, 0 at the end of s
WidthAt(s, p) ==
    IF p >= Len(s) THEN 0 ELSE DecodeRuneInString(SubSeq(s, p + 1, Len(s))).w

\* the offset of the first character of s from p on that differs from the
\* word w (from its i-th rune on), p + the encoded length of w if none does
RECURSIVE MismatchAt(_, _, _, _)
MismatchAt(s, p, w, i) ==
    IF i > Len(w) \/ RuneAt(s, p) # w[i] THEN p
    ELSE MismatchAt(s, p + WidthAt(s, p), w, i + 1)

\* C20: width is the encoded width of the character next() decoded last (0
\* at end-of-input), also when next() ran inside peek, accept, acceptRun
\* or acceptWord; so a backup after next and peek, or after next and a
\* failed acceptWord, takes end back by the width of the peeked or the
\* last-compared character, and leaves it where it was before that next
\* only when that character is as wide as the one next had read.
C20_WidthOfLastDecoded ==
    [][/\ (Returned("next") \/ Returned("peek") \/ Returned("accept"))
            => width' = WidthAt(input, end)
       /\ Returned("acceptRun") => width' = WidthAt(input, end')
       /\ (Returned("acceptWord") /\ call'.ret = TRUE)
            => width' = Len(EncodeRune(Last(call'.arg)))
       /\ (Returned("acceptWord") /\ call'.ret = FALSE)
            => width' = WidthAt(input, MismatchAt(input, end, call'.arg, 1))
       /\ (Returned("backup") /\ call.op = "peek" /\ call.own # <<>>)
            => /\ end' = end - WidthAt(input, end)
               /\ (end' = call.own[1])
                    <=> (WidthAt(input, end) = WidthAt(input, call.own[1]))
       /\ (Returned("backup") /\ call.op = "acceptWord" /\ call.own # <<>>
             /\ call.ret = FALSE)
            => /\ end' = end - WidthAt(input, MismatchAt(input, end, call.arg, 1))
               /\ (end' = call.own[1])
                    <=> (WidthAt(input, MismatchAt(input, end, call.arg, 1))
                           = WidthAt(input, call.own[1]))
      ]_vars

\* next read a two-byte character, peek a one-byte one, and backup left end
\* inside the two-byte character
C20_Witness ==
    /\ ~panicked
    /\ call.op = "backup"
    /\ input = <<195, 169, 97>>
    /\ start = 0
    /\ end = 1
    /\ width = 1

====
